---- MODULE Spec2Model ----
(***************************************************************************)
(* incoming-message-parser: parseJson, parseMultipart and                  *)
(* getMimeTypeFromBuffer (src/src/index.ts), as a state machine.           *)
(*                                                                         *)
(* Buffers are sequences of bytes (0..255); JavaScript strings are         *)
(* sequences of code units.  Offsets are 0-based as in the source, so the  *)
(* byte at offset i of a buffer b is b[i + 1].                             *)
(***************************************************************************)
EXTENDS Integers, Sequences, FiniteSets, TLC

VARIABLES
    mimeBuf,    \* the buffer handed to getMimeTypeFromBuffer
    mimeOut,    \* what that call did: nothing yet, a return value or a throw
    req,        \* per call: the function to call, its header argument and
                \* what its stream argument will emit
    call,       \* per call: the locals of the call (listeners attached,
                \* data, buffer, boundary) and the promise it returned
    stream,     \* per call: how far the stream has emitted
    stuck       \* whether the event loop is inside a listener that never
                \* returns

vars == <<mimeBuf, mimeOut, req, call, stream, stuck>>

---------------------------------------------------------------------------
(* Buffer and string primitives of the runtime, as the source uses them.   *)

MinOf(a, b) == IF a < b THEN a ELSE b

\* buf.subarray(start, end) for start, end >= 0: both are clamped to the
\* length, and an end before the start gives the empty buffer.
Subarray(buf, start, end) ==
    LET s == MinOf(start, Len(buf))
        e == MinOf(end, Len(buf))
    IN  IF e <= s THEN << >> ELSE SubSeq(buf, s + 1, e)

\* str.startsWith(prefix)
StartsWith(str, prefix) ==
    /\ Len(prefix) <= Len(str)
    /\ SubSeq(str, 1, Len(prefix)) = prefix

\* Whether pat occurs in s at offset i (0-based).
OccursAt(s, pat, i) ==
    /\ i >= 0
    /\ i + Len(pat) <= Len(s)
    /\ s[i + 1] = pat[1]
    /\ SubSeq(s, i + 1, i + Len(pat)) = pat

\* buf.indexOf(pat, from) and str.indexOf(pat, from) for a non-empty pat:
\* the least offset >= from where pat occurs, -1 when there is none.
IndexOf(s, pat, from) ==
    LET hits == { i \in from..(Len(s) - Len(pat)) : OccursAt(s, pat, i) }
    IN  IF hits = {} THEN -1
        ELSE CHOOSE i \in hits : \A j \in hits : i <= j

\* str.includes(pat)
Includes(s, pat) == IndexOf(s, pat, 0) # -1

RECURSIVE Concat(_)
\* Buffer.concat(list)
Concat(list) ==
    IF list = << >> THEN << >> ELSE Head(list) \o Concat(Tail(list))

---------------------------------------------------------------------------
(* getMimeTypeFromBuffer                                                   *)

\* buffer.toString("hex", start, end).toLowerCase(): two hex digits per
\* byte, most significant first.  A hex digit is held as its value 0..15,
\* so the letters a..f are 10..15 in either case.
HexDigits(bytes) ==
    [i \in 1..(2 * Len(bytes)) |->
        IF i % 2 = 1 THEN bytes[(i + 1) \div 2] \div 16
        ELSE bytes[i \div 2] % 16]

ToHex(buffer, start, end) == HexDigits(Subarray(buffer, start, end))

\* The signatures object, in the order `for (const key in signatures)`
\* visits it: the keys that are array indices ("494433", "25504446",
\* "41564920") in ascending numeric order, then the others as written.
signatures ==
    << [key |-> <<4,9,4,4,3,3>>,                 type |-> "audio/mp3"],
       [key |-> <<2,5,5,0,4,4,4,6>>,             type |-> "application/pdf"],
       [key |-> <<4,1,5,6,4,9,2,0>>,             type |-> "video/avi"],
       [key |-> <<8,9,5,0,4,14,4,7>>,            type |-> "image/png"],
       [key |-> <<4,7,4,9,4,6,3,8,3,7,6,1>>,     type |-> "image/gif"],
       [key |-> <<4,7,4,9,4,6,3,8,3,9,6,1>>,     type |-> "image/gif"],
       [key |-> <<15,15,13,8>>,                  type |-> "image/jpeg"],
       [key |-> <<5,0,4,11,0,3,0,4>>,            type |-> "application/zip"],
       [key |-> <<2,14,7,2,6,1,15,13>>,          type |-> "audio/vnd.rn-realaudio"],
       [key |-> <<15,15,15,11>>,                 type |-> "audio/mp3"],
       [key |-> <<4,15,6,7,6,7,5,3>>,            type |-> "audio/ogg"],
       [key |-> <<1,10,4,5,13,15,10,3>>,         type |-> "video/webm"],
       [key |-> <<0,0,0,0,0,1,11,10>>,           type |-> "video/mpeg"],
       [key |-> <<0,0,0,0,0,1,11,3>>,            type |-> "video/mpeg"],
       [key |-> <<6,6,4,12,6,1,4,3>>,            type |-> "audio/flac"],
       [key |-> <<4,13,5,4,6,8,6,4>>,            type |-> "audio/midi"] >>

RiffHex == <<5,2,4,9,4,6,4,6>>      \* "52494646"
WaveHex == <<5,7,4,1,5,6,4,5>>      \* "57415645"
AviHex  == <<4,1,5,6,4,9,2,0>>      \* "41564920"

Returned(v) == [kind |-> "returned", value |-> v]

Thrown(msg) == [kind |-> "thrown", value |-> msg]

\* The for-in loop: the type of the first key, from index i on, that is a
\* prefix of signature; "" when the loop ends without a return.
RECURSIVE FirstSignature(_, _)
FirstSignature(signature, i) ==
    IF i > Len(signatures) THEN ""
    ELSE IF StartsWith(signature, signatures[i].key) THEN signatures[i].type
    ELSE FirstSignature(signature, i + 1)

\* getMimeTypeFromBuffer with the RIFF length test off by one.
getMimeTypeFromBufferLongRiff(buffer) ==
    LET signature == ToHex(buffer, 0, MinOf(16, Len(buffer)))
        found     == FirstSignature(signature, 1)
    IN  IF found # "" THEN Returned(found)
        ELSE IF StartsWith(signature, RiffHex) /\ Len(buffer) > 12
             THEN IF ToHex(buffer, 8, 12) = WaveHex THEN Returned("audio/wav")
                  ELSE IF ToHex(buffer, 8, 12) = AviHex THEN Returned("video/avi")
                  ELSE Thrown("Mime type unknown")
        ELSE Thrown("Mime type unknown")

getMimeTypeFromBuffer(buffer) ==
    LET signature == ToHex(buffer, 0, MinOf(16, Len(buffer)))
        found     == FirstSignature(signature, 1)
    IN  IF found # "" THEN Returned(found)
        ELSE IF StartsWith(signature, RiffHex) /\ Len(buffer) > 11
             THEN IF ToHex(buffer, 8, 12) = WaveHex THEN Returned("audio/wav")
                  ELSE IF ToHex(buffer, 8, 12) = AviHex THEN Returned("video/avi")
                  ELSE Thrown("Mime type unknown")
        ELSE Thrown("Mime type unknown")

---------------------------------------------------------------------------
(* Text decoding: buf.toString() and the implicit conversion of            *)
(* `data += chunk`.                                                        *)

ReplacementChar == <<65533>>        \* U+FFFD

IsContinuation(b) == b >= 128 /\ b <= 191

\* UTF-8 decoding with replacement, as Buffer.toString() does it: an ASCII
\* byte is its own code unit, a lead byte C2..DF with a continuation byte
\* is one two-byte character, and any byte that starts no complete
\* character becomes U+FFFD.  Lead bytes of three- and four-byte characters
\* (E0 and above) are decoded bytewise as U+FFFD: the inputs here hold none
\* in decoded positions.
Utf8Decode(bytes) ==
    LET IsLead(i)   == bytes[i] >= 194 /\ bytes[i] <= 223
        IsSecond(i) == i > 1 /\ IsLead(i - 1) /\ IsContinuation(bytes[i])
        Unit(i) ==
            IF bytes[i] < 128 THEN bytes[i]
            ELSE IF IsLead(i) /\ i < Len(bytes) /\ IsContinuation(bytes[i + 1])
                 THEN (bytes[i] - 192) * 64 + (bytes[i + 1] - 128)
            ELSE ReplacementChar[1]
        units == [i \in 1..Len(bytes) |->
                    IF IsSecond(i) THEN -1 ELSE Unit(i)]
    IN  SelectSeq(units, LAMBDA u : u # -1)

\* Buffer.from(str): UTF-8 encoding of code units below U+0800.
RECURSIVE Utf8Encode(_)
Utf8Encode(str) ==
    IF str = << >> THEN << >>
    ELSE LET u == Head(str)
         IN  (IF u < 128 THEN <<u>> ELSE <<192 + (u \div 64), 128 + (u % 64)>>)
                 \o Utf8Encode(Tail(str))

---------------------------------------------------------------------------
(* The regular expressions of the source.                                  *)

NoMatch == [found |-> FALSE, group |-> << >>]

Match(g) == [found |-> TRUE, group |-> g]

\* The length of the longest run of code units outside `stop` that starts
\* at offset `from` of str.
RunLength(str, from, stop) ==
    LET ends == { i \in from..(Len(str) - 1) : str[i + 1] \in stop }
    IN  IF from >= Len(str) THEN 0
        ELSE IF ends = {} THEN Len(str) - from
        ELSE (CHOOSE i \in ends : \A j \in ends : i <= j) - from

\* The ASCII letters A..Z folded to a..z: what the i flag compares by.
FoldCase(str) ==
    [i \in 1..Len(str) |->
        IF str[i] >= 65 /\ str[i] <= 90 THEN str[i] + 32 ELSE str[i]]

\* regex.exec(str) for a regex of the shape  literal (run+) closer : the
\* leftmost offset where `literal` occurs (compared in `text`, which is str
\* or its case folding), followed by at least one code unit outside `stop`
\* and then, after the longest such run, by `closer` (which may be empty).
\* Group 1 is the run.
RECURSIVE ExecRun(_, _, _, _, _, _)
ExecRun(str, text, literal, stop, closer, from) ==
    LET at == IndexOf(text, literal, from)
    IN  IF at = -1 THEN NoMatch
        ELSE LET start == at + Len(literal)
                 n     == RunLength(str, start, stop)
             IN  IF n > 0 /\ StartsWith(Subarray(str, start + n, Len(str)), closer)
                 THEN Match(Subarray(str, start, start + n))
                 ELSE ExecRun(str, text, literal, stop, closer, at + 1)

Quote == <<34>>                     \* "

BoundaryEq == <<98, 111, 117, 110, 100, 97, 114, 121, 61>>      \* boundary=

NameEq == <<110, 97, 109, 101, 61, 34>>                         \* name="

FilenameEq == <<102, 105, 108, 101, 110, 97, 109, 101, 61, 34>> \* filename="

\* Content-Transfer-Encoding:<space>
TransferEncoding ==
    <<67, 111, 110, 116, 101, 110, 116, 45, 84, 114, 97, 110, 115, 102, 101,
      114, 45, 69, 110, 99, 111, 100, 105, 110, 103, 58, 32>>

\* What \s matches (so \S is every other code unit).
WhiteSpace ==
    {9, 10, 11, 12, 13, 32, 160, 5760, 8232, 8233, 8239, 8287, 12288, 65279}
        \cup (8192..8202)

\* /boundary=([^;]+)/i
BoundaryRegex(header) ==
    ExecRun(header, FoldCase(header), BoundaryEq, {59}, << >>, 0)

\* /name="([^"]+)"/
NameRegex(info) == ExecRun(info, info, NameEq, {34}, Quote, 0)

\* /filename="([^"]+)"/
FilenameRegex(info) == ExecRun(info, info, FilenameEq, {34}, Quote, 0)

\* /Content-Transfer-Encoding: (\S+)/
EncodingRegex(info) ==
    ExecRun(info, info, TransferEncoding, WhiteSpace, << >>, 0)

---------------------------------------------------------------------------
(* parseMultipart: the "end" listener's scan of the collected body.        *)

CRLFCRLF == <<13, 10, 13, 10>>      \* "\r\n\r\n"

SevenBit == <<55, 98, 105, 116>>    \* "7bit"

\* data[name] = value
Put(data, name, value) ==
    [k \in DOMAIN data \cup {name} |-> IF k = name THEN value ELSE data[k]]

EmptyData == [k \in {} |-> << >>]

Resolves(v) == [kind |-> "resolve", value |-> v]

Rejects(e) == [kind |-> "reject", value |-> e]

\* The handler never returns: an iteration that reaches `continue` has
\* changed neither idx nor lastIdx nor the buffer, so every later iteration
\* repeats it.
Hangs == [kind |-> "hang", value |-> ""]

\* The while loop from the state (idx, data): how the try block ends.
RECURSIVE ScanLoop(_, _, _, _)
ScanLoop(fullBuffer, boundaryBuffer, idx, data) ==
    IF idx = -1 THEN Resolves(data)
    ELSE
    LET endIdx == IndexOf(fullBuffer, boundaryBuffer, idx + 1)
    IN  IF endIdx = -1 THEN Resolves(data)
        ELSE
        LET part     == Subarray(fullBuffer, idx + Len(boundaryBuffer), endIdx)
            splitIdx == IndexOf(part, CRLFCRLF, 0)
        IN  IF splitIdx = -1 THEN Hangs
            ELSE
            LET info      == Utf8Decode(Subarray(part, 0, splitIdx))
                body      == Subarray(part, splitIdx + 4, Len(part) - 2)
                nameMatch == NameRegex(info)
            IN  IF ~nameMatch.found THEN Hangs
                ELSE
                LET name == nameMatch.group
                    next == IndexOf(fullBuffer, boundaryBuffer, endIdx)
                IN  IF Includes(info, FilenameEq)
                    THEN LET fileMatch     == FilenameRegex(info)
                             fileName      == IF fileMatch.found
                                              THEN fileMatch.group ELSE << >>
                             encodingMatch == EncodingRegex(info)
                             encoding      == IF encodingMatch.found
                                              THEN encodingMatch.group
                                              ELSE SevenBit
                             mimeType      == getMimeTypeFromBuffer(body)
                         IN  IF mimeType.kind = "thrown"
                             THEN Rejects(mimeType.value)
                             ELSE ScanLoop(fullBuffer, boundaryBuffer, next,
                                      Put(data, name,
                                          [body     |-> body,
                                           fileName |-> fileName,
                                           encoding |-> encoding,
                                           mimeType |-> mimeType.value]))
                    ELSE ScanLoop(fullBuffer, boundaryBuffer, next,
                             Put(data, name, [text |-> Utf8Decode(body)]))

\* The body of the "end" listener of parseMultipart.
MultipartEnd(buffer, boundary) ==
    LET fullBuffer     == Concat(buffer)
        boundaryBuffer == Utf8Encode(<<45, 45>> \o boundary)
    IN  ScanLoop(fullBuffer, boundaryBuffer,
                 IndexOf(fullBuffer, boundaryBuffer, 0), EmptyData)

---------------------------------------------------------------------------
(* JSON.parse, for the JSON texts the inputs draw from: strings without    *)
(* escapes, integers, true, false, null, arrays and objects.  A backslash  *)
(* or a fraction or exponent, which no input holds, is reported as a       *)
(* syntax error.  Positions are 1-based indices into the text.             *)

JsonSpace == {9, 10, 13, 32}

Digits == 48..57

\* The first position >= i that holds no white space (Len + 1 at the end).
SkipSpace(s, i) ==
    LET rest == { j \in i..Len(s) : s[j] \notin JsonSpace }
    IN  IF rest = {} THEN Len(s) + 1
        ELSE CHOOSE j \in rest : \A k \in rest : j <= k

JsonFail == [ok |-> FALSE, val |-> << >>, next |-> 0]

JsonOk(v, n) == [ok |-> TRUE, val |-> v, next |-> n]

At(s, i, lit) == StartsWith(Subarray(s, i - 1, Len(s)), lit)

RECURSIVE DigitsValue(_)
DigitsValue(ds) ==
    IF ds = << >> THEN 0
    ELSE 10 * DigitsValue(SubSeq(ds, 1, Len(ds) - 1)) + (ds[Len(ds)] - 48)

\* A string literal whose opening quote is at i.
JsonString(s, i) ==
    LET close == IndexOf(s, Quote, i)       \* offset i is position i + 1
        chars == Subarray(s, i, close)
    IN  IF close = -1 THEN JsonFail
        ELSE IF \E k \in 1..Len(chars) : chars[k] < 32 \/ chars[k] = 92
             THEN JsonFail
        ELSE JsonOk([t |-> "string", v |-> chars], close + 2)

\* A number that starts at i (a digit or a minus sign).
JsonNumber(s, i) ==
    LET neg   == s[i] = 45
        from  == IF neg THEN i + 1 ELSE i
        run   == RunLength(s, from - 1, (0..65535) \ Digits)
        n     == IF run > 0 /\ s[from] = 48 THEN 1 ELSE run
        after == from + n
    IN  IF n = 0 THEN JsonFail
        ELSE IF after <= Len(s) /\ s[after] \in {46, 69, 101} THEN JsonFail
        ELSE LET v == DigitsValue(SubSeq(s, from, after - 1))
             IN  JsonOk([t |-> "number", v |-> IF neg THEN 0 - v ELSE v], after)

RECURSIVE JsonValue(_, _)
RECURSIVE JsonElements(_, _, _)
RECURSIVE JsonMembers(_, _, _)

\* The value that starts at position i.
JsonValue(s, i) ==
    IF i > Len(s) THEN JsonFail
    ELSE IF s[i] = 34 THEN JsonString(s, i)
    ELSE IF s[i] = 45 \/ s[i] \in Digits THEN JsonNumber(s, i)
    ELSE IF At(s, i, <<116, 114, 117, 101>>)
         THEN JsonOk([t |-> "boolean", v |-> TRUE], i + 4)
    ELSE IF At(s, i, <<102, 97, 108, 115, 101>>)
         THEN JsonOk([t |-> "boolean", v |-> FALSE], i + 5)
    ELSE IF At(s, i, <<110, 117, 108, 108>>)
         THEN JsonOk([t |-> "null", v |-> << >>], i + 4)
    ELSE IF s[i] = 91
         THEN LET j == SkipSpace(s, i + 1)
              IN  IF j <= Len(s) /\ s[j] = 93
                  THEN JsonOk([t |-> "array", v |-> << >>], j + 1)
                  ELSE JsonElements(s, j, << >>)
    ELSE IF s[i] = 123
         THEN LET j == SkipSpace(s, i + 1)
              IN  IF j <= Len(s) /\ s[j] = 125
                  THEN JsonOk([t |-> "object", v |-> EmptyData], j + 1)
                  ELSE JsonMembers(s, j, EmptyData)
    ELSE JsonFail

\* The elements of an array from position i on, after those in acc.
JsonElements(s, i, acc) ==
    LET e == JsonValue(s, i)
        j == SkipSpace(s, e.next)
    IN  IF ~e.ok \/ j > Len(s) THEN JsonFail
        ELSE IF s[j] = 44
             THEN JsonElements(s, SkipSpace(s, j + 1), Append(acc, e.val))
        ELSE IF s[j] = 93
             THEN JsonOk([t |-> "array", v |-> Append(acc, e.val)], j + 1)
        ELSE JsonFail

\* The members of an object from position i on, after those in acc; a
\* repeated key keeps its last value.
JsonMembers(s, i, acc) ==
    LET k == IF i <= Len(s) /\ s[i] = 34 THEN JsonString(s, i) ELSE JsonFail
        c == SkipSpace(s, k.next)
    IN  IF ~k.ok \/ c > Len(s) \/ s[c] # 58 THEN JsonFail
        ELSE LET e == JsonValue(s, SkipSpace(s, c + 1))
                 j == SkipSpace(s, e.next)
             IN  IF ~e.ok \/ j > Len(s) THEN JsonFail
                 ELSE IF s[j] = 44
                      THEN JsonMembers(s, SkipSpace(s, j + 1),
                                       Put(acc, k.val.v, e.val))
                 ELSE IF s[j] = 125
                      THEN JsonOk([t |-> "object",
                                   v |-> Put(acc, k.val.v, e.val)], j + 1)
                 ELSE JsonFail

\* JSON.parse(text)
JsonParse(text) ==
    LET r == JsonValue(text, SkipSpace(text, 1))
    IN  IF r.ok /\ SkipSpace(text, r.next) = Len(text) + 1
        THEN Returned(r.val)
        ELSE Thrown("SyntaxError")

---------------------------------------------------------------------------
(* Promises, and the two functions up to the point where they return.      *)

Pending == [state |-> "pending", value |-> ""]

Resolved(v) == [state |-> "resolved", value |-> v]

Rejected(e) == [state |-> "rejected", value |-> e]

\* resolve(v) / reject(e) on a promise: only a pending promise changes.
Settle(promise, outcome) ==
    IF promise.state # "pending" THEN promise
    ELSE IF outcome.kind = "resolve" THEN Resolved(outcome.value)
    ELSE IF outcome.kind = "reject" THEN Rejected(outcome.value)
    ELSE promise

ApplicationJson ==                  \* "application/json"
    <<97, 112, 112, 108, 105, 99, 97, 116, 105, 111, 110, 47, 106, 115, 111,
      110>>

MultipartFormData ==                \* "multipart/form-data"
    <<109, 117, 108, 116, 105, 112, 97, 114, 116, 47, 102, 111, 114, 109, 45,
      100, 97, 116, 97>>

Listeners == {"data", "error", "end"}

\* A call that has not been made.
NotCalled ==
    [fn |-> "none", listeners |-> {}, boundary |-> << >>, data |-> << >>,
     buffer |-> << >>, promise |-> Pending]

\* parseJson(requestStream, contentTypeHeader) up to its return: a throw
\* in the async function rejects the promise it returns.
parseJson(contentTypeHeader) ==
    IF ~StartsWith(contentTypeHeader, ApplicationJson)
    THEN [NotCalled EXCEPT !.fn = "parseJson",
                           !.promise = Rejected("Invalid content type")]
    ELSE [NotCalled EXCEPT !.fn = "parseJson", !.listeners = Listeners]

\* parseMultipart with its two checks in the other order.
parseMultipartBoundaryFirst(contentTypeHeader) ==
    LET match    == BoundaryRegex(contentTypeHeader)
        boundary == IF match.found THEN match.group ELSE << >>
    IN  IF boundary = << >>
        THEN [NotCalled EXCEPT !.fn = "parseMultipart",
                               !.promise = Rejected("No boundary found")]
        ELSE IF ~StartsWith(contentTypeHeader, MultipartFormData)
        THEN [NotCalled EXCEPT !.fn = "parseMultipart",
                               !.promise = Rejected("Invalid content type")]
        ELSE [NotCalled EXCEPT !.fn = "parseMultipart",
                               !.boundary = boundary,
                               !.listeners = Listeners]

\* parseMultipart(requestStream, contentTypeHeader) up to its return.
parseMultipart(contentTypeHeader) ==
    IF ~StartsWith(contentTypeHeader, MultipartFormData)
    THEN [NotCalled EXCEPT !.fn = "parseMultipart",
                           !.promise = Rejected("Invalid content type")]
    ELSE LET match    == BoundaryRegex(contentTypeHeader)
             boundary == IF match.found THEN match.group ELSE << >>
         IN  IF boundary = << >>
             THEN [NotCalled EXCEPT !.fn = "parseMultipart",
                                    !.promise = Rejected("No boundary found")]
             ELSE [NotCalled EXCEPT !.fn = "parseMultipart",
                                    !.boundary = boundary,
                                    !.listeners = Listeners]

---------------------------------------------------------------------------
(* The listeners.                                                          *)

\* The "data" listener: `data += chunk` decodes the chunk on its own;
\* buffer.push(chunk) keeps it as it is.
OnData(cs, chunk) ==
    IF cs.fn = "parseJson"
    THEN [cs EXCEPT !.data = @ \o Utf8Decode(chunk)]
    ELSE [cs EXCEPT !.buffer = Append(@, chunk)]

\* An "error" listener that drops the error.
OnErrorDropped(cs, e) == cs

\* The "error" listener: reject.
OnError(cs, e) == [cs EXCEPT !.promise = Settle(@, Rejects(e))]

\* The body of the "end" listener of parseJson.
JsonEnd(data) ==
    LET r == JsonParse(data)
    IN  IF r.kind = "returned" THEN Resolves(r.value) ELSE Rejects(r.value)

\* How the "end" listener ends.
EndOutcome(cs) ==
    IF cs.fn = "parseJson" THEN JsonEnd(cs.data)
    ELSE MultipartEnd(cs.buffer, cs.boundary)

OnEnd(cs) == [cs EXCEPT !.promise = Settle(@, EndOutcome(cs))]

---------------------------------------------------------------------------
(* Inputs of the sniffer: every prefix, up to MaxSniffLen bytes, of a      *)
(* set of buffers that covers each table entry, the RIFF containers and    *)
(* buffers matching nothing.                                               *)

MaxSniffLen == 13

SniffBases ==
    { <<137, 80, 78, 71, 13, 10, 26, 10, 0, 0, 0, 13, 73, 72>>,     \* PNG
      <<71, 73, 70, 56, 55, 97, 1, 0>>,                             \* GIF87a
      <<71, 73, 70, 56, 57, 97, 1, 0>>,                             \* GIF89a
      <<71, 73, 70, 56, 56, 97, 1, 0>>,                             \* GIF88a
      <<255, 216, 255, 224, 0, 16, 74, 70>>,                        \* JPEG
      <<37, 80, 68, 70, 45, 49, 46, 52>>,                           \* %PDF-1.4
      <<80, 75, 3, 4, 20, 0>>,                                      \* ZIP
      <<46, 114, 97, 253, 0, 4>>,                                   \* .ra
      <<73, 68, 51, 3, 0>>,                                         \* ID3
      <<255, 251, 144, 0>>,                                         \* MP3 frame
      <<79, 103, 103, 83, 0, 2>>,                                   \* OggS
      <<26, 69, 223, 163, 1>>,                                      \* EBML
      <<0, 0, 1, 186, 68>>,                                         \* MPEG PS
      <<0, 0, 1, 179, 20>>,                                         \* MPEG seq
      <<102, 76, 97, 67, 0>>,                                       \* fLaC
      <<65, 86, 73, 32, 0>>,                                        \* "AVI "
      <<77, 84, 104, 100, 0, 0>>,                                   \* MThd
      <<82, 73, 70, 70, 36, 0, 0, 0, 87, 65, 86, 69, 102, 109>>,    \* RIFF WAVE
      <<82, 73, 70, 70, 36, 0, 0, 0, 65, 86, 73, 32, 76, 73>>,      \* RIFF AVI
      <<82, 73, 70, 70, 36, 0, 0, 0, 87, 69, 66, 80, 86, 80>>,      \* RIFF WEBP
      <<82, 73, 70, 88, 36, 0, 0, 0, 87, 65, 86, 69, 102, 109>>,    \* RIFX WAVE
      <<0, 0, 0, 0, 82, 73, 70, 70, 87, 65, 86, 69, 0>>,            \* RIFF late
      <<104, 101, 108, 108, 111, 32, 119, 111, 114, 108, 100, 33>>  \* text
    }

SniffInputs ==
    { Subarray(b, 0, n) : b \in SniffBases, n \in 0..MaxSniffLen }

NotSniffed == [kind |-> "none", value |-> ""]

Sniff ==
    /\ mimeOut.kind = "none"
    /\ mimeOut' = getMimeTypeFromBuffer(mimeBuf)
    /\ UNCHANGED <<mimeBuf, req, call, stream, stuck>>

---------------------------------------------------------------------------
(* Requests: multipart bodies built from lists of parts, JSON texts, and   *)
(* the headers that come with them.                                        *)

CRLF == <<13, 10>>

\* Content-Disposition: form-data
ContentDisposition ==
    <<67, 111, 110, 116, 101, 110, 116, 45, 68, 105, 115, 112, 111, 115, 105,
      116, 105, 111, 110, 58, 32, 102, 111, 114, 109, 45, 100, 97, 116, 97>>

PngBytes == <<137, 80, 78, 71, 13, 10, 26, 10>>

JpegBytes == <<255, 216, 255, 224>>

Part(named, name, file, fileName, cte, payload, divider) ==
    [named |-> named, name |-> name, file |-> file, fileName |-> fileName,
     cte |-> cte, payload |-> payload, divider |-> divider]

\* name="a", value "hi"
FieldHi == Part(TRUE, <<97>>, FALSE, << >>, << >>, <<104, 105>>, TRUE)

\* name="a", value "yé"
FieldYe == Part(TRUE, <<97>>, FALSE, << >>, << >>, <<121, 195, 169>>, TRUE)

\* name="b"; filename="f.png", a PNG
FilePng ==
    Part(TRUE, <<98>>, TRUE, <<102, 46, 112, 110, 103>>, << >>, PngBytes, TRUE)

\* name="a"; filename="g", Content-Transfer-Encoding: binary, a JPEG
FileJpeg ==
    Part(TRUE, <<97>>, TRUE, <<103>>, <<98, 105, 110, 97, 114, 121>>,
         JpegBytes, TRUE)

\* name="c"; filename="h", bytes of no known type
FileUnknown == Part(TRUE, <<99>>, TRUE, <<104>>, << >>, <<1, 2, 3>>, TRUE)

\* filename="a" and no name attribute, a PNG
FileNoName == Part(FALSE, << >>, TRUE, <<97>>, << >>, PngBytes, TRUE)

\* no name and no filename attribute
FieldNoName == Part(FALSE, << >>, FALSE, << >>, << >>, <<122>>, TRUE)

\* name="d", but no empty line between the header and the value
FieldNoDivider == Part(TRUE, <<100>>, FALSE, << >>, << >>, <<120>>, FALSE)

PartPool ==
    { FieldHi, FieldYe, FilePng, FileJpeg, FileUnknown, FileNoName,
      FieldNoName, FieldNoDivider }

HeaderOf(p) ==
    ContentDisposition
        \o (IF p.named THEN <<59, 32>> \o NameEq \o p.name \o Quote ELSE << >>)
        \o (IF p.file THEN <<59, 32>> \o FilenameEq \o p.fileName \o Quote
            ELSE << >>)
        \o (IF p.cte # << >> THEN CRLF \o TransferEncoding \o p.cte ELSE << >>)

SegmentOf(p) ==
    CRLF \o HeaderOf(p) \o (IF p.divider THEN CRLFCRLF ELSE CRLF)
         \o p.payload \o CRLF

RECURSIVE BodyOf(_, _)
\* delimiter, part, delimiter, part, ..., delimiter "--" CRLF
BodyOf(boundary, parts) ==
    IF parts = << >> THEN <<45, 45>> \o boundary \o <<45, 45>> \o CRLF
    ELSE <<45, 45>> \o boundary \o SegmentOf(Head(parts))
             \o BodyOf(boundary, Tail(parts))

MaxParts == 2       \* parts per multipart body, in every combination

MaxChunk == 3       \* bytes per chunk of a stream of JSON text

BlockSize == 96     \* bytes per chunk of a stream of a multipart body

MaxErrors == 1      \* "error" events per stream

StreamErrors == {"ECONNRESET", "EPIPE"}

BoundaryX == <<88>>                 \* X

BoundaryDash == <<45>>              \* -

PartLists(n) == UNION { [1..k -> PartPool] : k \in 0..n }

\* Two parts that carry the field name "a", then a third part.
CollisionLists ==
    { <<p, q, r>> : p \in {FieldHi, FileJpeg}, q \in {FieldYe, FileJpeg},
                    r \in {FilePng, FileNoName, FieldNoName} }

\* multipart/form-data; boundary=<boundary>
MultipartHeader(boundary) ==
    MultipartFormData \o <<59, 32>> \o BoundaryEq \o boundary

Request(fn, header, src, cuts, boundary, parts, script) ==
    [fn |-> fn, header |-> header, src |-> src, cuts |-> cuts,
     boundary |-> boundary, parts |-> parts, script |-> script]

NoRequest == Request("none", << >>, << >>, {}, << >>, << >>, << >>)

MultipartRequest(boundary, parts) ==
    LET src == BodyOf(boundary, parts)
    IN  Request("parseMultipart", MultipartHeader(boundary), src,
                {BlockSize, Len(src)}, boundary, parts, << >>)

JsonTexts ==
    { <<34, 195, 169, 34>>,                                 \* "é"
      <<55>>,                                               \* 7
      <<123, 34, 107, 34, 58, 34, 195, 169, 34, 125>>,      \* {"k":"é"}
      <<91, 49, 44, 116, 114, 117, 101, 93>>,               \* [1,true]
      << >>,                                                \* empty
      <<123, 34, 107, 34>> }                                \* {"k"

JsonRequest(header, text) ==
    Request("parseJson", header, text, 1..MaxChunk, << >>, << >>, << >>)

TextPlain == <<116, 101, 120, 116, 47, 112, 108, 97, 105, 110>>

\* Headers that fail a precondition of parseJson.
BadJsonHeaders ==
    { TextPlain,
      << >>,
      MultipartHeader(BoundaryX),
      <<32>> \o ApplicationJson,                            \* leading space
      <<65>> \o Tail(ApplicationJson) }                     \* Application/json

\* ; charset=utf-8
Charset == <<59, 32, 99, 104, 97, 114, 115, 101, 116, 61, 117, 116, 102, 45, 56>>

GoodJsonHeaders == { ApplicationJson, ApplicationJson \o Charset }

\* Headers that fail a precondition of parseMultipart: the first four the
\* media type, the others the boundary.
BadMultipartHeaders ==
    { TextPlain,
      ApplicationJson,
      TextPlain \o <<59, 32>> \o BoundaryEq \o BoundaryX,
      BoundaryEq \o BoundaryX,
      MultipartFormData,
      MultipartFormData \o <<59, 32>> \o BoundaryEq,
      MultipartFormData \o <<59, 32>> \o BoundaryEq \o Charset,
      MultipartFormData \o <<59, 32, 98, 111, 117, 110, 100, 97, 114, 121, 32,
                             61, 88>> }                     \* ; boundary =X

\* multipart/form-data; Boundary=X
UpperCaseHeader ==
    MultipartFormData \o <<59, 32, 66>> \o Tail(BoundaryEq) \o BoundaryX

Requests ==
    { MultipartRequest(BoundaryX, parts) :
        parts \in PartLists(MaxParts) \cup CollisionLists }
    \cup { MultipartRequest(BoundaryDash, parts) : parts \in PartLists(1) }
    \cup { [MultipartRequest(BoundaryX, <<FieldHi>>) EXCEPT !.header = h] :
             h \in BadMultipartHeaders \cup {UpperCaseHeader} }
    \cup { JsonRequest(h, t) : h \in GoodJsonHeaders, t \in JsonTexts }
    \cup { JsonRequest(h, <<55>>) : h \in BadJsonHeaders }

---------------------------------------------------------------------------
(* The state machine: one call on one stream.                              *)

Calls == {1, 2}

NotStarted ==
    [pos |-> 0, ended |-> FALSE, errs |-> << >>, endAt |-> -1, left |-> << >>]

Init ==
    /\ mimeBuf = << >>
    /\ mimeOut = NotSniffed
    /\ req \in { [c \in Calls |-> IF c = 1 THEN r ELSE NoRequest] :
                   r \in Requests }
    /\ call = [c \in Calls |-> NotCalled]
    /\ stream = [c \in Calls |-> NotStarted]
    /\ stuck = FALSE

\* The caller calls parseJson.
ParseJson(c) ==
    /\ ~stuck
    /\ req[c].fn = "parseJson"
    /\ call[c].fn = "none"
    /\ call' = [call EXCEPT ![c] = parseJson(req[c].header)]
    /\ UNCHANGED <<mimeBuf, mimeOut, req, stream, stuck>>

\* The caller calls parseMultipart.
ParseMultipart(c) ==
    /\ ~stuck
    /\ req[c].fn = "parseMultipart"
    /\ call[c].fn = "none"
    /\ call' = [call EXCEPT ![c] = parseMultipart(req[c].header)]
    /\ UNCHANGED <<mimeBuf, mimeOut, req, stream, stuck>>

\* The stream emits "data" with its next n bytes: it flows once a "data"
\* listener is attached.
Data(c) ==
    /\ ~stuck
    /\ "data" \in call[c].listeners
    /\ ~stream[c].ended
    /\ stream[c].pos < Len(req[c].src)
    /\ \E k \in req[c].cuts :
         LET n     == MinOf(k, Len(req[c].src) - stream[c].pos)
             chunk == Subarray(req[c].src, stream[c].pos, stream[c].pos + n)
         IN  /\ call' = [call EXCEPT ![c] = OnData(@, chunk)]
             /\ stream' = [stream EXCEPT ![c].pos = @ + n]
    /\ UNCHANGED <<mimeBuf, mimeOut, req, stuck>>

\* The stream emits "error" with e, at any point.
Error(c) ==
    /\ ~stuck
    /\ "error" \in call[c].listeners
    /\ Len(stream[c].errs) < MaxErrors
    /\ \E e \in StreamErrors :
         /\ call' = [call EXCEPT ![c] = OnError(@, e)]
         /\ stream' = [stream EXCEPT ![c].errs = Append(@, e)]
    /\ UNCHANGED <<mimeBuf, mimeOut, req, stuck>>

\* The stream emits "end" after its last byte; the listener runs the whole
\* parse, or never returns.
End(c) ==
    /\ ~stuck
    /\ "end" \in call[c].listeners
    /\ ~stream[c].ended
    /\ stream[c].pos = Len(req[c].src)
    /\ call' = [call EXCEPT ![c] = OnEnd(@)]
    /\ stuck' = (EndOutcome(call[c]).kind = "hang")
    /\ stream' = [stream EXCEPT ![c].ended = TRUE,
                                ![c].endAt = Len(stream[c].errs)]
    /\ UNCHANGED <<mimeBuf, mimeOut, req>>

Next ==
    \E c \in {1} :
        \/ ParseJson(c)
        \/ ParseMultipart(c)
        \/ Data(c)
        \/ Error(c)
        \/ End(c)

Spec == Init /\ [][Next]_vars

---------------------------------------------------------------------------
(* Two calls in flight on two streams.  Each stream emits a fixed script   *)
(* of events; the event loop runs one listener at a time.                  *)

DataEvent(chunk) == [type |-> "data", arg |-> chunk]

ErrorEvent(e) == [type |-> "error", arg |-> e]

EndEvent == [type |-> "end", arg |-> << >>]

ScriptedRequest(r, script) == [r EXCEPT !.script = script]

\* The stream emits src in two chunks, the first of n bytes, then ends.
TwoChunks(src, n) ==
    << DataEvent(Subarray(src, 0, n)), DataEvent(Subarray(src, n, Len(src))),
       EndEvent >>

TwoRequests ==
    LET seven   == JsonRequest(ApplicationJson, <<55>>)
        eAcute  == JsonRequest(ApplicationJson, <<34, 195, 169, 34>>)
        plain   == JsonRequest(TextPlain, <<55>>)
        hi      == MultipartRequest(BoundaryX, <<FieldHi>>)
        png     == MultipartRequest(BoundaryX, <<FieldYe, FilePng>>)
        unknown == MultipartRequest(BoundaryX, <<FileUnknown>>)
        noDiv   == MultipartRequest(BoundaryX, <<FieldNoDivider>>)
    IN  { ScriptedRequest(seven, <<DataEvent(seven.src), EndEvent>>),
          ScriptedRequest(seven, <<DataEvent(seven.src),
                                   ErrorEvent("ECONNRESET"), EndEvent>>),
          ScriptedRequest(eAcute, TwoChunks(eAcute.src, 2)),
          ScriptedRequest(plain, <<DataEvent(plain.src), EndEvent>>),
          ScriptedRequest(hi, TwoChunks(hi.src, 20)),
          ScriptedRequest(png, TwoChunks(png.src, 70)),
          ScriptedRequest(unknown, <<DataEvent(unknown.src), EndEvent>>),
          ScriptedRequest(noDiv, <<DataEvent(noDiv.src), EndEvent>>) }

InitTwo ==
    /\ mimeBuf = << >>
    /\ mimeOut = NotSniffed
    /\ req \in [Calls -> TwoRequests]
    /\ call = [c \in Calls |-> NotCalled]
    /\ stream = [c \in Calls |-> [NotStarted EXCEPT !.left = req[c].script]]
    /\ stuck = FALSE

\* The next event of the script can be emitted.
CanEmit(c, type) ==
    /\ ~stuck
    /\ type \in call[c].listeners
    /\ stream[c].left # << >>
    /\ Head(stream[c].left).type = type

EmitData(c) ==
    /\ CanEmit(c, "data")
    /\ call' = [call EXCEPT ![c] = OnData(@, Head(stream[c].left).arg)]
    /\ stream' = [stream EXCEPT ![c].left = Tail(@),
                                ![c].pos = @ + Len(Head(stream[c].left).arg)]
    /\ UNCHANGED <<mimeBuf, mimeOut, req, stuck>>

EmitError(c) ==
    /\ CanEmit(c, "error")
    /\ call' = [call EXCEPT ![c] = OnError(@, Head(stream[c].left).arg)]
    /\ stream' = [stream EXCEPT ![c].left = Tail(@),
                                ![c].errs = Append(@, Head(stream[c].left).arg)]
    /\ UNCHANGED <<mimeBuf, mimeOut, req, stuck>>

EmitEnd(c) ==
    /\ CanEmit(c, "end")
    /\ call' = [call EXCEPT ![c] = OnEnd(@)]
    /\ stuck' = (EndOutcome(call[c]).kind = "hang")
    /\ stream' = [stream EXCEPT ![c].left = Tail(@),
                                ![c].ended = TRUE,
                                ![c].endAt = Len(stream[c].errs)]
    /\ UNCHANGED <<mimeBuf, mimeOut, req>>

NextTwo ==
    \E c \in Calls :
        \/ ParseJson(c)
        \/ ParseMultipart(c)
        \/ EmitData(c)
        \/ EmitError(c)
        \/ EmitEnd(c)

SpecTwo == InitTwo /\ [][NextTwo]_vars

---------------------------------------------------------------------------
(* What the claims speak of.                                               *)

IsRejectedWith(promise, e) == promise.state = "rejected" /\ promise.value = e

\* The call was made and passed its preconditions.
Collecting(c) == call[c].listeners # {}

\* The stream emitted "end", and no "error" before it.
CleanEnd(c) == stream[c].ended /\ stream[c].endAt = 0

\* A part the parser is to record: it has the header/body divider and a
\* name attribute.
Recordable(p) == p.divider /\ p.named

\* A part the parser is to skip.
Skipped(p) == ~Recordable(p)

KnownType(payload) == getMimeTypeFromBuffer(payload).kind = "returned"

\* The entry a recordable part is to have in the result.
EntryOf(p) ==
    IF p.file
    THEN [body     |-> p.payload,
          fileName |-> p.fileName,
          encoding |-> IF p.cte = << >> THEN SevenBit ELSE p.cte,
          mimeType |-> getMimeTypeFromBuffer(p.payload).value]
    ELSE [text |-> Utf8Decode(p.payload)]

\* The last part of the list that carries the field name n.
LastNamed(parts, n) ==
    LET at == { i \in 1..Len(parts) : Recordable(parts[i]) /\ parts[i].name = n }
    IN  parts[CHOOSE i \in at : \A j \in at : j <= i]

NamesOf(parts) ==
    { parts[i].name : i \in { j \in 1..Len(parts) : Recordable(parts[j]) } }

\* A well-formed body: at least one part, every part recordable, the names
\* pairwise distinct, every file payload of a known type.
WellFormed(parts) ==
    /\ parts # << >>
    /\ \A i \in 1..Len(parts) :
         /\ Recordable(parts[i])
         /\ parts[i].file => KnownType(parts[i].payload)
    /\ \A i, j \in 1..Len(parts) : parts[i].name = parts[j].name => i = j

ExpectedData(parts) == [n \in NamesOf(parts) |-> EntryOf(LastNamed(parts, n))]

MultipartCalls == { c \in Calls : call[c].fn = "parseMultipart" /\ Collecting(c) }

JsonCalls == { c \in Calls : call[c].fn = "parseJson" /\ Collecting(c) }

\* C1: once the stream of a parseMultipart call has ended on a body that
\* holds a segment with no divider or no name attribute, the promise is
\* settled; when it is resolved, every recordable part is in the result,
\* those after the skipped segment included.
C1_ScanTerminates ==
    \A c \in MultipartCalls :
        (stream[c].ended
            /\ \E i \in 1..Len(req[c].parts) : Skipped(req[c].parts[i])) =>
            /\ call[c].promise.state # "pending"
            /\ call[c].promise.state = "resolved" =>
                   NamesOf(req[c].parts) \subseteq DOMAIN call[c].promise.value

\* C2: a well-formed body, fully delivered, resolves to the mapping from
\* the part names to the entries of the parts.
C2_WellFormedBodyParses ==
    \A c \in MultipartCalls :
        (CleanEnd(c) /\ WellFormed(req[c].parts)) =>
            /\ call[c].promise.state = "resolved"
            /\ call[c].promise.value = ExpectedData(req[c].parts)

\* C2 for the boundaries that are not made of dashes only: there the
\* closing delimiter does not hold the delimiter a second time.
C2_OtherBoundaries ==
    \A c \in MultipartCalls :
        (CleanEnd(c) /\ WellFormed(req[c].parts)
            /\ \E i \in 1..Len(req[c].boundary) : req[c].boundary[i] # 45) =>
            /\ call[c].promise.state = "resolved"
            /\ call[c].promise.value = ExpectedData(req[c].parts)

\* The header starts with the literal.
HasPrefix(header, literal) ==
    /\ Len(header) >= Len(literal)
    /\ \A i \in 1..Len(literal) : header[i] = literal[i]

\* The header has a boundary= parameter, in any case, with a value of at
\* least one character other than ";".
HasBoundary(header) ==
    \E i \in 0..Len(header) :
        /\ OccursAt(FoldCase(header), BoundaryEq, i)
        /\ i + Len(BoundaryEq) < Len(header)
        /\ header[i + Len(BoundaryEq) + 1] # 59

\* The error a call with this header is to fail with before it touches the
\* stream; "" when it is to go on.
PreconditionError(fn, header) ==
    IF fn = "parseJson"
    THEN IF HasPrefix(header, ApplicationJson) THEN "" ELSE "Invalid content type"
    ELSE IF ~HasPrefix(header, MultipartFormData) THEN "Invalid content type"
    ELSE IF ~HasBoundary(header) THEN "No boundary found"
    ELSE ""

\* C3: a call whose header fails a precondition is rejected with that
\* precondition's error (the media type first, the boundary second), no
\* listener is attached to its stream and no byte of the stream is read.
C3_PreconditionsBeforeStream ==
    \A c \in Calls :
        (call[c].fn # "none" /\ PreconditionError(call[c].fn, req[c].header) # "") =>
            /\ IsRejectedWith(call[c].promise,
                              PreconditionError(call[c].fn, req[c].header))
            /\ call[c].listeners = {}
            /\ stream[c].pos = 0
            /\ ~stream[c].ended
            /\ stream[c].errs = << >>

\* A parseMultipart call with a multipart header that has no boundary was
\* rejected, and one with another media type and a boundary too.
C3_Witness ==
    /\ call[1].fn = "parseMultipart"
    /\ HasPrefix(req[1].header, MultipartFormData)
    /\ ~HasBoundary(req[1].header)
    /\ IsRejectedWith(call[1].promise, "No boundary found")

\* The file parts the parser is to classify whose payload is of no known
\* type.
UnknownFiles(parts) ==
    { i \in 1..Len(parts) :
        Recordable(parts[i]) /\ parts[i].file /\ ~KnownType(parts[i].payload) }

\* C4: a body with a file part of unknown type, fully delivered, rejects
\* with the unknown-MIME-type error, wherever the part is in the body.
C4_UnknownTypeRejects ==
    \A c \in MultipartCalls :
        (CleanEnd(c) /\ UnknownFiles(req[c].parts) # {}) =>
            IsRejectedWith(call[c].promise, "Mime type unknown")

\* C4 for the bodies where no segment before the first failing file part
\* is one the parser is to skip.
C4_NoSkipBefore ==
    \A c \in MultipartCalls :
        (/\ CleanEnd(c)
         /\ UnknownFiles(req[c].parts) # {}
         /\ \A i \in 1..Len(req[c].parts) :
              (\A j \in UnknownFiles(req[c].parts) : i < j) =>
                  Recordable(req[c].parts[i])) =>
            IsRejectedWith(call[c].promise, "Mime type unknown")

\* The field names that two or more parts of the list carry.
Collisions(parts) ==
    { n \in NamesOf(parts) :
        \E i, j \in 1..Len(parts) :
            /\ i # j
            /\ Recordable(parts[i]) /\ parts[i].name = n
            /\ Recordable(parts[j]) /\ parts[j].name = n }

\* C5: in a resolved mapping, a field name that several parts carry has
\* the entry of the last of these parts.
C5_LastPartWins ==
    \A c \in MultipartCalls :
        call[c].promise.state = "resolved" =>
            \A n \in Collisions(req[c].parts) :
                /\ n \in DOMAIN call[c].promise.value
                /\ call[c].promise.value[n] = EntryOf(LastNamed(req[c].parts, n))

\* C5 for the bodies where every part with a filename attribute has a
\* name attribute too.
C5_NoSkippedFileInBody ==
    \A c \in MultipartCalls :
        (/\ call[c].promise.state = "resolved"
         /\ \A i \in 1..Len(req[c].parts) :
              req[c].parts[i].file => req[c].parts[i].named) =>
            \A n \in Collisions(req[c].parts) :
                /\ n \in DOMAIN call[c].promise.value
                /\ call[c].promise.value[n] = EntryOf(LastNamed(req[c].parts, n))

\* The type getMimeTypeFromBuffer is to give for a buffer: that of a table
\* entry whose pattern is a prefix of the hex of the first bytes; else that
\* of the RIFF sub-type; else none.
TableHits(buffer) ==
    { i \in 1..Len(signatures) :
        HasPrefix(HexDigits(Subarray(buffer, 0, MinOf(16, Len(buffer)))),
                  signatures[i].key) }

RiffBytes == <<82, 73, 70, 70>>     \* RIFF

WaveBytes == <<87, 65, 86, 69>>     \* WAVE

AviBytes == <<65, 86, 73, 32>>      \* "AVI "

\* C6: getMimeTypeFromBuffer returns the type of a matching table entry;
\* with none, audio/wav or video/avi for a RIFF buffer of 12 bytes or more
\* by its bytes 8..12; in every other case it throws.
C6_SnifferContract ==
    mimeOut.kind # "none" =>
        IF TableHits(mimeBuf) # {}
        THEN /\ mimeOut.kind = "returned"
             /\ \E i \in TableHits(mimeBuf) : mimeOut.value = signatures[i].type
        ELSE IF HasPrefix(mimeBuf, RiffBytes) /\ Len(mimeBuf) >= 12
                  /\ SubSeq(mimeBuf, 9, 12) = WaveBytes
             THEN mimeOut = Returned("audio/wav")
        ELSE IF HasPrefix(mimeBuf, RiffBytes) /\ Len(mimeBuf) >= 12
                  /\ SubSeq(mimeBuf, 9, 12) = AviBytes
             THEN mimeOut = Returned("video/avi")
        ELSE mimeOut = Thrown("Mime type unknown")

\* A RIFF WAVE buffer of exactly 12 bytes was sniffed as audio/wav.
C6_Witness ==
    /\ Len(mimeBuf) = 12
    /\ HasPrefix(mimeBuf, RiffBytes)
    /\ mimeOut = Returned("audio/wav")

\* C7: a valid JSON text, delivered in any chunks, resolves to its decoded
\* value.
C7_ChunkingIrrelevant ==
    \A c \in JsonCalls :
        (CleanEnd(c) /\ JsonParse(Utf8Decode(req[c].src)).kind = "returned") =>
            /\ call[c].promise.state = "resolved"
            /\ call[c].promise.value = JsonParse(Utf8Decode(req[c].src)).value

\* C7 for the chunkings that split no character.
C7_AsciiText ==
    \A c \in JsonCalls :
        (/\ CleanEnd(c)
         /\ JsonParse(Utf8Decode(req[c].src)).kind = "returned"
         /\ \A i \in 1..Len(req[c].src) : req[c].src[i] < 128) =>
            /\ call[c].promise.state = "resolved"
            /\ call[c].promise.value = JsonParse(Utf8Decode(req[c].src)).value

\* C8: once the stream has emitted an error before its end, the promise is
\* rejected with the first such error, and stays so whatever the stream
\* emits afterwards.
C8_StreamErrorRejects ==
    \A c \in Calls :
        (/\ Collecting(c)
         /\ stream[c].errs # << >>
         /\ stream[c].endAt # 0) =>
            IsRejectedWith(call[c].promise, stream[c].errs[1])

\* The stream delivered all its data, emitted an error and then ended on a
\* body that parses; the promise is rejected with the error.
C8_Witness ==
    \E c \in Calls :
        /\ Collecting(c)
        /\ stream[c].pos > 0
        /\ stream[c].ended
        /\ stream[c].endAt = 1
        /\ EndOutcome(call[c]).kind = "resolve"
        /\ IsRejectedWith(call[c].promise, stream[c].errs[1])

\* The call on its own stream, alone: the listeners run on the events of
\* the script in order.
RECURSIVE RunAlone(_, _)
RunAlone(cs, script) ==
    IF script = << >> \/ Head(script).type \notin cs.listeners THEN cs
    ELSE IF Head(script).type = "data"
         THEN RunAlone(OnData(cs, Head(script).arg), Tail(script))
    ELSE IF Head(script).type = "error"
         THEN RunAlone(OnError(cs, Head(script).arg), Tail(script))
    ELSE IF EndOutcome(cs).kind = "hang" THEN cs
    ELSE RunAlone(OnEnd(cs), Tail(script))

AlonePromise(c) ==
    RunAlone(IF req[c].fn = "parseJson" THEN parseJson(req[c].header)
             ELSE parseMultipart(req[c].header),
             req[c].script).promise

SamePromise(p, q) == p.state = q.state /\ p.value = q.value

\* Nothing more can happen: the event loop is stuck, or every call was
\* made and its stream has nothing left that it can emit.
Quiescent ==
    \/ stuck
    \/ \A c \in Calls :
         /\ call[c].fn # "none"
         /\ stream[c].left = << >> \/ call[c].listeners = {}

\* C9: each of two calls in flight settles as it would alone: a settled
\* promise is the one of the call alone, and when nothing more can happen
\* every promise is the one of the call alone.
C9_NoInterference ==
    \A c \in Calls :
        (call[c].fn # "none" /\ (call[c].promise.state # "pending" \/ Quiescent)) =>
            SamePromise(call[c].promise, AlonePromise(c))

\* C9 without a call whose own "end" listener never returns.
C9_SettledAsAlone ==
    \A c \in Calls :
        call[c].promise.state # "pending" =>
            SamePromise(call[c].promise, AlonePromise(c))

\* C10: the keys of a resolved mapping are names of name attributes: a
\* part without one has no entry under any key.
C10_NoNameNoEntry ==
    \A c \in MultipartCalls :
        call[c].promise.state = "resolved" =>
            \A k \in DOMAIN call[c].promise.value :
                \E i \in 1..Len(req[c].parts) :
                    req[c].parts[i].named /\ req[c].parts[i].name = k

---------------------------------------------------------------------------
(* getMimeTypeFromBuffer on its own.                                       *)

MimeInit ==
    /\ mimeBuf \in SniffInputs
    /\ mimeOut = NotSniffed
    /\ req = [c \in Calls |-> NoRequest]
    /\ call = [c \in Calls |-> NotCalled]
    /\ stream = [c \in Calls |-> NotStarted]
    /\ stuck = FALSE

SpecMime == MimeInit /\ [][Sniff]_vars

====
